---- MODULE Spec2Model ----
(***************************************************************************)
(* Proxy re-encryption command line tool (src/src/py/crypto.py).           *)
(*                                                                         *)
(* Every invocation of the tool is one process: it parses argv, decodes    *)
(* its inputs, calls the scheme (pre.setup, pre.keygen, pre.encrypt,       *)
(* pre.rekeygen, pre.re_encrypt, pre.decrypt), prints and exits.  The      *)
(* state of the model is the caller's workspace (the texts earlier         *)
(* invocations printed and the caller kept) and the outcome of the last    *)
(* invocation.                                                             *)
(*                                                                         *)
(* The scheme object (NAL16b) and the two group providers                  *)
(* (PairingGroup('SS512'), IntegerGroup()) are imported by crypto.py and   *)
(* are not part of the source tree; they are modelled from the written     *)
(* specification (sections 3, 4.1, 4.2) over scaled-down groups: a pairing *)
(* group of prime order PairingOrder written additively in the exponent,   *)
(* and the residues modulo ResidueModulus.                                 *)
(***************************************************************************)
EXTENDS Integers, Sequences, FiniteSets, TLC

\* ------------------------------------------------------------------ bounds
\* Longest --message argument the caller tries, in characters.
MaxMsgLen == 3
\* Random scalars are drawn from 1..NumRand (a subset of the non-zero scalars).
NumRand == 2
\* The same, in the runs that explore ill-formed invocations.
NumRandFaulty == 1

\* --------------------------------------------------- group providers (4.1)
\* Prime order of the pairing group (stand-in for SS512's order).
PairingOrder == 5
\* Prime modulus of the residue group (stand-in for IntegerGroup's modulus).
ResidueModulus == 7
\* Fixed base of the residue group whose powers are the masks.
MaskBase == 3

Owners == {"A", "B"}

\* Results of every fallible step: err = "None" on success.
Ok(v) == [err |-> "None", val |-> v]
Fail(kind) == [err |-> kind, val |-> <<>>]
IsOk(r) == r.err = "None"

\* Elements: grp is "ZR" (scalar), "G1", "GT" (pairing target) or "Zp" (residue).
Elem(grp, v) == [grp |-> grp, v |-> v]

Scalars == 1 .. (PairingOrder - 1)
RandScalars == {x \in Scalars : x <= NumRand}
FaultyRunScalars == {x \in Scalars : x <= NumRandFaulty}

\* ~x : inverse of a non-zero scalar modulo the group order.
ScalarInv(x) == CHOOSE y \in Scalars : (x * y) % PairingOrder = 1

\* element ** scalar, in the exponent.
Exponentiate(e, s) == Elem(e.grp, (e.v * s) % PairingOrder)

\* pair(a, b) = e(g0^a, g0^b) = Z0^(a*b), defined on G1 x G1 only.
Pair(a, b) == Elem("GT", (a.v * b.v) % PairingOrder)

RECURSIVE PowMod(_, _, _)
PowMod(b, e, m) == IF e = 0 THEN 1 % m ELSE (b * PowMod(b, e - 1, m)) % m

ResidueInv(u) == CHOOSE w \in 1 .. (ResidueModulus - 1) : (u * w) % ResidueModulus = 1

\* The mask derived from a pairing-target element: MaskBase ^ value mod p.
Mask(gt) == PowMod(MaskBase, gt.v, ResidueModulus)

\* ------------------------------------------------------ bytes and messages
\* The character the caller types and its UTF-8 byte; 255 is a byte that no
\* UTF-8 text contains.
Chars == {"a"}
ByteVals == <<97, 255>>
Bytes == {ByteVals[i] : i \in 1 .. Len(ByteVals)}
CharCode(c) == 97
CodeChar(b) == CHOOSE c \in Chars : CharCode(c) = b

\* Mutant: str.encode('utf-8-sig'), which puts a byte-order mark first.
Utf8Encode_sig(s) == <<255>> \o [i \in 1 .. Len(s) |-> CharCode(s[i])]

\* str.encode('utf-8')
Utf8Encode(s) == [i \in 1 .. Len(s) |-> CharCode(s[i])]

\* bytes.decode('utf-8'): raises UnicodeDecodeError on a byte that is no text.
Utf8Decode(bs) ==
    IF \E i \in 1 .. Len(bs) : bs[i] \notin {CharCode(c) : c \in Chars}
    THEN Fail("UnicodeDecodeError")
    ELSE Ok([i \in 1 .. Len(bs) |-> CodeChar(bs[i])])

Digit(b) == CHOOSE i \in 1 .. Len(ByteVals) : ByteVals[i] = b

\* The integer a byte string stands for (every byte string has its own).
RECURSIVE BytesValue(_)
BytesValue(bs) ==
    IF bs = <<>> THEN 0
    ELSE Len(ByteVals) * BytesValue(SubSeq(bs, 1, Len(bs) - 1)) + Digit(bs[Len(bs)])

RECURSIVE ValueBytes(_)
ValueBytes(v) ==
    IF v = 0 THEN <<>>
    ELSE LET d == IF v % Len(ByteVals) = 0 THEN Len(ByteVals) ELSE v % Len(ByteVals)
         IN  Append(ValueBytes((v - d) \div Len(ByteVals)), ByteVals[d])

\* encodeMessage: PayloadTooLarge when the integer is not below the modulus.
encodeMessage(bs) ==
    IF BytesValue(bs) >= ResidueModulus THEN Fail("PayloadTooLarge")
    ELSE Ok(Elem("Zp", BytesValue(bs)))

decodeMessage(e) == ValueBytes(e.v)

\* Longest length all of whose byte strings can be embedded.
RECURSIVE MaxValueOfLen(_)
MaxValueOfLen(n) == IF n = 0 THEN 0 ELSE Len(ByteVals) * MaxValueOfLen(n - 1) + Len(ByteVals)
EmbedBound == CHOOSE n \in 0 .. ResidueModulus :
                 /\ MaxValueOfLen(n) < ResidueModulus
                 /\ MaxValueOfLen(n + 1) >= ResidueModulus

\* ------------------------------------------------------------- dictionaries
\* A Python dict: a sequence of <<key, value>> with distinct keys, in
\* insertion order.
DictKeys(d) == {d[i][1] : i \in 1 .. Len(d)}
DictHas(d, k) == k \in DictKeys(d)
DictGet(d, k) == d[CHOOSE i \in 1 .. Len(d) : d[i][1] = k][2]

\* ------------------------------------------- provider encodings (4.1, 4.3)
\* A text is a sequence of symbols; the text-safe alphabet is
\* 0 .. PairingOrder - 1.  The pairing group writes <<type code, value>>,
\* the residue group writes the two digits of the value: the two encodings
\* cannot be told apart without knowing which group wrote them.
TextSafe(t) == \A i \in 1 .. Len(t) : t[i] \in 0 .. (PairingOrder - 1)

TypeCode(grp) == IF grp = "ZR" THEN 0 ELSE IF grp = "G1" THEN 1 ELSE 3
CodeType(c) == IF c = 0 THEN "ZR" ELSE IF c = 1 THEN "G1" ELSE "GT"

\* objectToBytes(object, group): group is "pairing" (group_obj) or
\* "integer" (IntegerGroup()).
objectToBytes(e, group) ==
    IF group = "pairing"
    THEN IF e.grp \in {"ZR", "G1", "GT"}
         THEN Ok(<<TypeCode(e.grp), e.v>>)
         ELSE Fail("SerializeError")
    ELSE IF e.grp = "Zp"
         THEN Ok(<<e.v \div PairingOrder, e.v % PairingOrder>>)
         ELSE Fail("SerializeError")

\* bytesToObject(bytes, group).
bytesToObject(t, group) ==
    IF ~TextSafe(t) \/ Len(t) # 2 THEN Fail("MalformedInput")
    ELSE IF group = "pairing"
         THEN IF t[1] \in {0, 1, 3} THEN Ok(Elem(CodeType(t[1]), t[2]))
              ELSE Fail("MalformedInput")
         ELSE IF t[1] * PairingOrder + t[2] < ResidueModulus
              THEN Ok(Elem("Zp", t[1] * PairingOrder + t[2]))
              ELSE Fail("MalformedInput")

\* ------------------------------------------------------------------- JSON
\* A JSON argument: wf = FALSE is a text json.loads cannot parse.
JsonText(members) == [wf |-> TRUE, members |-> members]
BadJson == [wf |-> FALSE, members |-> <<>>]

\* json.dumps of a dict of strings.
JsonDumps(d) == JsonText(d)

RECURSIVE KeepFirst(_)
KeepFirst(m) ==
    IF m = <<>> THEN <<>>
    ELSE LET front == KeepFirst(SubSeq(m, 1, Len(m) - 1))
             k == m[Len(m)][1]
         IN  IF DictHas(front, k)
             THEN [i \in 1 .. Len(front) |->
                     IF front[i][1] = k THEN m[Len(m)] ELSE front[i]]
             ELSE Append(front, m[Len(m)])

\* json.loads: a repeated name keeps its first place and its last value.
JsonLoads(t) == IF t.wf THEN Ok(KeepFirst(t.members)) ELSE Fail("MalformedInput")

\* --------------------------------------------------------- codec (crypto.py)
serialize_group_element(object, group) == objectToBytes(object, group)

deserialize_group_element(object, group) == bytesToObject(object, group)

\* The loop of retrieve_params / retrieve_cipher: member i is decoded by
\* groups[i]; the first failure is raised.  route: the group each member
\* went through.
DecodeFields(members, groups) ==
    LET rs == [i \in 1 .. Len(members) |-> bytesToObject(members[i][2], groups[i])]
        route == [i \in 1 .. Len(members) |-> <<members[i][1], groups[i]>>]
    IN
    IF \E i \in 1 .. Len(members) : ~IsOk(rs[i])
    THEN [err |-> rs[CHOOSE i \in 1 .. Len(members) :
                        /\ ~IsOk(rs[i])
                        /\ \A j \in 1 .. (i - 1) : IsOk(rs[j])].err,
          val |-> <<>>, route |-> route]
    ELSE [err |-> "None",
          val |-> [i \in 1 .. Len(members) |-> <<members[i][1], rs[i].val>>],
          route |-> route]

\* The loop of serialize_cipher and of the setup branch, then json.dumps.
EncodeFields(d, groups) ==
    LET rs == [i \in 1 .. Len(d) |-> serialize_group_element(d[i][2], groups[i])]
        route == [i \in 1 .. Len(d) |-> <<d[i][1], groups[i]>>]
    IN
    IF \E i \in 1 .. Len(d) : ~IsOk(rs[i])
    THEN [err |-> "SerializeError", val |-> BadJson, route |-> route]
    ELSE [err |-> "None",
          val |-> JsonDumps([i \in 1 .. Len(d) |-> <<d[i][1], rs[i].val>>]),
          route |-> route]

retrieve_params(serialized_params_json) ==
    LET j == JsonLoads(serialized_params_json)
    IN  IF ~IsOk(j) THEN [err |-> j.err, val |-> <<>>, route |-> <<>>]
        ELSE DecodeFields(j.val, [i \in 1 .. Len(j.val) |-> "pairing"])

\* Mutant: the payload is taken to be the second member, whatever its name.
retrieve_cipher_bypos(serialized_cipher_json) ==
    LET j == JsonLoads(serialized_cipher_json)
    IN  IF ~IsOk(j) THEN [err |-> j.err, val |-> <<>>, route |-> <<>>]
        ELSE DecodeFields(j.val,
                 [i \in 1 .. Len(j.val) |-> IF i = 2 THEN "integer" ELSE "pairing"])

\* Mutant: every member through group_obj, as retrieve_params does.
retrieve_cipher_allpairing(serialized_cipher_json) ==
    LET j == JsonLoads(serialized_cipher_json)
    IN  IF ~IsOk(j) THEN [err |-> j.err, val |-> <<>>, route |-> <<>>]
        ELSE DecodeFields(j.val, [i \in 1 .. Len(j.val) |-> "pairing"])

retrieve_cipher(serialized_cipher_json) ==
    LET j == JsonLoads(serialized_cipher_json)
    IN  IF ~IsOk(j) THEN [err |-> j.err, val |-> <<>>, route |-> <<>>]
        ELSE DecodeFields(j.val,
                 [i \in 1 .. Len(j.val) |->
                     IF j.val[i][1] = "c3" THEN "integer" ELSE "pairing"])

serialize_cipher(cipher) ==
    EncodeFields(cipher,
        [i \in 1 .. Len(cipher) |->
            IF cipher[i][1] = "c3" THEN "integer" ELSE "pairing"])

\* The loop of the setup branch: every parameter through group_obj.
serialize_params(params) ==
    EncodeFields(params, [i \in 1 .. Len(params) |-> "pairing"])

\* ------------------------------------------------- scheme operations (4.2)
\* NAL16b as section 4.2 describes it.  Random scalars are arguments.
IsScalar(e) == e.grp = "ZR" /\ e.v # 0

\* Setup: a fresh generator g = g0^gamma and Z = e(g, g).
setup(gamma) ==
    LET g == Elem("G1", gamma)
    IN  <<(<<"g", g>>), (<<"Z", Pair(g, g)>>)>>

\* KeyGen: sk = x, pk = g^x.
keygen(params, x) ==
    IF ~DictHas(params, "g") THEN Fail("KeyError")
    ELSE IF DictGet(params, "g").grp # "G1" THEN Fail("InvalidElement")
    ELSE Ok([pk |-> Exponentiate(DictGet(params, "g"), x), sk |-> Elem("ZR", x)])

\* Encrypt: c1 = pk^r, c3 = encodeMessage(m) * Mask(Z^r); a Level-2 ciphertext.
encrypt(params, pk, m, r) ==
    IF ~DictHas(params, "Z") THEN Fail("KeyError")
    ELSE IF DictGet(params, "Z").grp # "GT" \/ pk.grp # "G1" THEN Fail("InvalidElement")
    ELSE IF ~IsOk(encodeMessage(m)) THEN Fail("PayloadTooLarge")
    ELSE LET mask == Mask(Exponentiate(DictGet(params, "Z"), r))
             c3 == Elem("Zp", (encodeMessage(m).val.v * mask) % ResidueModulus)
         IN  Ok(<<(<<"c1", Exponentiate(pk, r)>>), (<<"c3", c3>>)>>)

\* ReKeyGen(secretOfDelegator, publicOfDelegatee) = pk_b ^ (1 / sk_a).
rekeygen(sk_a, pk_b) ==
    IF ~IsScalar(sk_a) \/ pk_b.grp # "G1" THEN Fail("InvalidElement")
    ELSE Ok(Exponentiate(pk_b, ScalarInv(sk_a.v)))

\* The level of a ciphertext is the group of its encapsulation component.
Level(c) ==
    IF ~DictHas(c, "c1") THEN 0
    ELSE IF DictGet(c, "c1").grp = "G1" THEN 2
    ELSE IF DictGet(c, "c1").grp = "GT" THEN 1
    ELSE 0

\* ReEncrypt: c1' = pair(c1, rk), payload carried through; Level-2 only.
re_encrypt(params, rk, c) ==
    IF ~DictHas(c, "c1") \/ ~DictHas(c, "c3") THEN Fail("KeyError")
    ELSE IF Level(c) = 1 THEN Fail("WrongLevel")
    ELSE IF Level(c) # 2 \/ rk.grp # "G1" THEN Fail("InvalidElement")
    ELSE Ok(<<(<<"c1", Pair(DictGet(c, "c1"), rk)>>), (<<"c3", DictGet(c, "c3")>>)>>)

\* Decrypt: mask = Mask(c1 ^ (1 / sk)), message = decodeMessage(c3 / mask);
\* Level-1 only, no integrity check.
decrypt(params, sk, c) ==
    IF ~DictHas(c, "c1") \/ ~DictHas(c, "c3") THEN Fail("KeyError")
    ELSE IF Level(c) = 2 THEN Fail("WrongLevel")
    ELSE IF Level(c) # 1 \/ DictGet(c, "c3").grp # "Zp" \/ ~IsScalar(sk)
         THEN Fail("InvalidElement")
    ELSE LET mask == Mask(Exponentiate(DictGet(c, "c1"), ScalarInv(sk.v)))
             v == (DictGet(c, "c3").v * ResidueInv(mask)) % ResidueModulus
         IN  Ok(decodeMessage(Elem("Zp", v)))

\* ------------------------------------------------------------ command line
OpNames == {"setup", "keygen", "encrypt", "decrypt", "rekeygen", "re_encrypt"}

\* An optional argument: given = FALSE is Python's None.
NoArg == [given |-> FALSE, text |-> <<>>]
Arg(t) == [given |-> TRUE, text |-> t]

Argv(ops, pParams, pSk, pPk, pMessage, pCiphertext, pRekey, pOwned) ==
    [ops |-> ops, params |-> pParams, sk |-> pSk, pk |-> pPk, message |-> pMessage,
     ciphertext |-> pCiphertext, rekey |-> pRekey, owned |-> pOwned]

\* What an invocation ends in.  exit: 0 success, 1 uncaught exception
\* (traceback), 2 argparse's error().  out: what was printed, in order.
\* calls: the scheme operations entered.  obj: the value that was printed.
Done(out, calls, obj) ==
    [exit |-> 0, err |-> "None", msg |-> "", out |-> out, calls |-> calls, obj |-> obj]
Crash(err, calls) ==
    [exit |-> 1, err |-> err, msg |-> "", out |-> <<>>, calls |-> calls, obj |-> <<>>]
ParserError(err, msg) ==
    [exit |-> 2, err |-> err, msg |-> msg, out |-> <<>>, calls |-> <<>>, obj |-> <<>>]

\* parser.parse_args(): the two mutually exclusive groups.
parser_setup(argv) ==
    IF Cardinality(argv.ops) > 1 \/ (argv.message.given /\ argv.ciphertext.given)
    THEN ParserError("UsageError", "not allowed with argument")
    ELSE Done(<<>>, <<>>, <<>>)

SetupBranch(argv, rnd) ==
    LET params == setup(rnd)
        s == serialize_params(params)
    IN  IF ~IsOk(s) THEN Crash(s.err, <<"setup">>)
        ELSE Done(<<s.val>>, <<"setup">>, params)

KeygenBranch(argv, rnd) ==
    IF ~argv.params.given
    THEN ParserError("MissingArgument", "--params is required")
    ELSE
    LET params == retrieve_params(argv.params.text) IN
    IF ~IsOk(params) THEN Crash(params.err, <<>>) ELSE
    LET k == keygen(params.val, rnd) IN
    IF ~IsOk(k) THEN Crash(k.err, <<"keygen">>) ELSE
    LET p == serialize_group_element(k.val.pk, "pairing")
        s == serialize_group_element(k.val.sk, "pairing")
    IN  IF ~IsOk(p) \/ ~IsOk(s) THEN Crash("SerializeError", <<"keygen">>)
        ELSE Done(<<p.val, s.val>>, <<"keygen">>, k.val)

EncryptBranch(argv, rnd) ==
    IF ~argv.params.given \/ ~argv.pk.given \/ ~argv.message.given
    THEN ParserError("MissingArgument", "--params --pk --message are required")
    ELSE
    LET params == retrieve_params(argv.params.text) IN
    IF ~IsOk(params) THEN Crash(params.err, <<>>) ELSE
    LET pk == deserialize_group_element(argv.pk.text, "pairing") IN
    IF ~IsOk(pk) THEN Crash(pk.err, <<>>) ELSE
    LET msg == Utf8Encode(argv.message.text)
        cipher == encrypt(params.val, pk.val, msg, rnd)
    IN
    IF ~IsOk(cipher) THEN Crash(cipher.err, <<"encrypt">>) ELSE
    LET s == serialize_cipher(cipher.val) IN
    IF ~IsOk(s) THEN Crash(s.err, <<"encrypt">>)
    ELSE Done(<<s.val>>, <<"encrypt">>, cipher.val)

\* Lines 113-114: m = pre.decrypt(...); print(m.decode('utf-8')).
DecryptTail(params, sk, cipher, calls) ==
    LET m == decrypt(params, sk, cipher) IN
    IF ~IsOk(m) THEN Crash(m.err, Append(calls, "decrypt")) ELSE
    LET t == Utf8Decode(m.val) IN
    IF ~IsOk(t) THEN Crash(t.err, Append(calls, "decrypt"))
    ELSE Done(<<t.val>>, Append(calls, "decrypt"), m.val)

\* Mutant: the result of the self-transform is not assigned to cipher.
DecryptBody_dropTransform(argv, rnd) ==
    LET params == retrieve_params(argv.params.text) IN
    IF ~IsOk(params) THEN Crash(params.err, <<>>) ELSE
    LET pk == deserialize_group_element(argv.pk.text, "pairing") IN
    IF ~IsOk(pk) THEN Crash(pk.err, <<>>) ELSE
    LET sk == deserialize_group_element(argv.sk.text, "pairing") IN
    IF ~IsOk(sk) THEN Crash(sk.err, <<>>) ELSE
    LET cipher == retrieve_cipher(argv.ciphertext.text) IN
    IF ~IsOk(cipher) THEN Crash(cipher.err, <<>>) ELSE
    IF argv.owned
    THEN LET rk == rekeygen(sk.val, pk.val) IN
         IF ~IsOk(rk) THEN Crash(rk.err, <<"rekeygen">>) ELSE
         LET c == re_encrypt(params.val, rk.val, cipher.val) IN
         IF ~IsOk(c) THEN Crash(c.err, <<"rekeygen", "re_encrypt">>)
         ELSE DecryptTail(params.val, sk.val, cipher.val, <<"rekeygen", "re_encrypt">>)
    ELSE DecryptTail(params.val, sk.val, cipher.val, <<>>)

\* Mutant: the self-transform is done whether or not --owned is given.
DecryptBody_alwaysOwned(argv, rnd) ==
    LET params == retrieve_params(argv.params.text) IN
    IF ~IsOk(params) THEN Crash(params.err, <<>>) ELSE
    LET pk == deserialize_group_element(argv.pk.text, "pairing") IN
    IF ~IsOk(pk) THEN Crash(pk.err, <<>>) ELSE
    LET sk == deserialize_group_element(argv.sk.text, "pairing") IN
    IF ~IsOk(sk) THEN Crash(sk.err, <<>>) ELSE
    LET cipher == retrieve_cipher(argv.ciphertext.text) IN
    IF ~IsOk(cipher) THEN Crash(cipher.err, <<>>) ELSE
    LET rk == rekeygen(sk.val, pk.val) IN
    IF ~IsOk(rk) THEN Crash(rk.err, <<"rekeygen">>) ELSE
    LET c == re_encrypt(params.val, rk.val, cipher.val) IN
    IF ~IsOk(c) THEN Crash(c.err, <<"rekeygen", "re_encrypt">>)
    ELSE DecryptTail(params.val, sk.val, c.val, <<"rekeygen", "re_encrypt">>)

\* Lines 106-114, past the check of the arguments.
DecryptBody(argv, rnd) ==
    LET params == retrieve_params(argv.params.text) IN
    IF ~IsOk(params) THEN Crash(params.err, <<>>) ELSE
    LET pk == deserialize_group_element(argv.pk.text, "pairing") IN
    IF ~IsOk(pk) THEN Crash(pk.err, <<>>) ELSE
    LET sk == deserialize_group_element(argv.sk.text, "pairing") IN
    IF ~IsOk(sk) THEN Crash(sk.err, <<>>) ELSE
    LET cipher == retrieve_cipher(argv.ciphertext.text) IN
    IF ~IsOk(cipher) THEN Crash(cipher.err, <<>>) ELSE
    IF argv.owned
    THEN LET rk == rekeygen(sk.val, pk.val) IN
         IF ~IsOk(rk) THEN Crash(rk.err, <<"rekeygen">>) ELSE
         LET c == re_encrypt(params.val, rk.val, cipher.val) IN
         IF ~IsOk(c) THEN Crash(c.err, <<"rekeygen", "re_encrypt">>)
         ELSE DecryptTail(params.val, sk.val, c.val, <<"rekeygen", "re_encrypt">>)
    ELSE DecryptTail(params.val, sk.val, cipher.val, <<>>)

\* Mutant: the check asks for what the help text lists (--pk --sk
\* --ciphertext); json.loads(None) then raises TypeError.
DecryptBranch_helpTextCheck(argv, rnd) ==
    IF ~argv.pk.given \/ ~argv.sk.given \/ ~argv.ciphertext.given
    THEN ParserError("MissingArgument", "--pk --sk --ciphertext are required")
    ELSE IF ~argv.params.given THEN Crash("TypeError", <<>>)
    ELSE DecryptBody(argv, rnd)

DecryptBranch(argv, rnd) ==
    IF ~argv.params.given \/ ~argv.pk.given \/ ~argv.sk.given \/ ~argv.ciphertext.given
    THEN ParserError("MissingArgument", "--params --pk --sk --ciphertext are required")
    ELSE DecryptBody(argv, rnd)

RekeygenBranch(argv, rnd) ==
    IF ~argv.pk.given \/ ~argv.sk.given
    THEN ParserError("MissingArgument", "--pk --sk are required")
    ELSE
    LET pk_b == deserialize_group_element(argv.pk.text, "pairing") IN
    IF ~IsOk(pk_b) THEN Crash(pk_b.err, <<>>) ELSE
    LET sk_a == deserialize_group_element(argv.sk.text, "pairing") IN
    IF ~IsOk(sk_a) THEN Crash(sk_a.err, <<>>) ELSE
    LET rk == rekeygen(sk_a.val, pk_b.val) IN
    IF ~IsOk(rk) THEN Crash(rk.err, <<"rekeygen">>) ELSE
    LET s == serialize_group_element(rk.val, "pairing") IN
    IF ~IsOk(s) THEN Crash(s.err, <<"rekeygen">>)
    ELSE Done(<<s.val>>, <<"rekeygen">>, rk.val)

\* Mutant: the input ciphertext is printed, not the transformed one.
ReEncryptBranch_printsInput(argv, rnd) ==
    IF ~argv.params.given \/ ~argv.rekey.given \/ ~argv.ciphertext.given
    THEN ParserError("MissingArgument", "--params --rekey --ciphertext are required")
    ELSE
    LET params == retrieve_params(argv.params.text) IN
    IF ~IsOk(params) THEN Crash(params.err, <<>>) ELSE
    LET rk == deserialize_group_element(argv.rekey.text, "pairing") IN
    IF ~IsOk(rk) THEN Crash(rk.err, <<>>) ELSE
    LET cipher == retrieve_cipher(argv.ciphertext.text) IN
    IF ~IsOk(cipher) THEN Crash(cipher.err, <<>>) ELSE
    LET c == re_encrypt(params.val, rk.val, cipher.val) IN
    IF ~IsOk(c) THEN Crash(c.err, <<"re_encrypt">>) ELSE
    LET s == serialize_cipher(cipher.val) IN
    IF ~IsOk(s) THEN Crash(s.err, <<"re_encrypt">>)
    ELSE Done(<<s.val>>, <<"re_encrypt">>, cipher.val)

\* Mutant: an exception of pre.re_encrypt is caught and the ciphertext is
\* printed as it was read.
ReEncryptBranch_swallow(argv, rnd) ==
    IF ~argv.params.given \/ ~argv.rekey.given \/ ~argv.ciphertext.given
    THEN ParserError("MissingArgument", "--params --rekey --ciphertext are required")
    ELSE
    LET params == retrieve_params(argv.params.text) IN
    IF ~IsOk(params) THEN Crash(params.err, <<>>) ELSE
    LET rk == deserialize_group_element(argv.rekey.text, "pairing") IN
    IF ~IsOk(rk) THEN Crash(rk.err, <<>>) ELSE
    LET cipher == retrieve_cipher(argv.ciphertext.text) IN
    IF ~IsOk(cipher) THEN Crash(cipher.err, <<>>) ELSE
    LET c == re_encrypt(params.val, rk.val, cipher.val)
        kept == IF IsOk(c) THEN c.val ELSE cipher.val
        s == serialize_cipher(kept)
    IN
    IF ~IsOk(s) THEN Crash(s.err, <<"re_encrypt">>)
    ELSE Done(<<s.val>>, <<"re_encrypt">>, kept)

ReEncryptBranch(argv, rnd) ==
    IF ~argv.params.given \/ ~argv.rekey.given \/ ~argv.ciphertext.given
    THEN ParserError("MissingArgument", "--params --rekey --ciphertext are required")
    ELSE
    LET params == retrieve_params(argv.params.text) IN
    IF ~IsOk(params) THEN Crash(params.err, <<>>) ELSE
    LET rk == deserialize_group_element(argv.rekey.text, "pairing") IN
    IF ~IsOk(rk) THEN Crash(rk.err, <<>>) ELSE
    LET cipher == retrieve_cipher(argv.ciphertext.text) IN
    IF ~IsOk(cipher) THEN Crash(cipher.err, <<>>) ELSE
    LET c == re_encrypt(params.val, rk.val, cipher.val) IN
    IF ~IsOk(c) THEN Crash(c.err, <<"re_encrypt">>) ELSE
    LET s == serialize_cipher(c.val) IN
    IF ~IsOk(s) THEN Crash(s.err, <<"re_encrypt">>)
    ELSE Done(<<s.val>>, <<"re_encrypt">>, c.val)

\* len(sys.argv) > 1
HasArguments(argv) ==
    \/ argv.ops # {}
    \/ argv.owned
    \/ argv.params.given
    \/ argv.sk.given
    \/ argv.pk.given
    \/ argv.rekey.given
    \/ argv.message.given
    \/ argv.ciphertext.given

\* One run of the program: lines 63-137.
Main(argv, rnd) ==
    IF parser_setup(argv).exit # 0 THEN parser_setup(argv)
    ELSE IF ~HasArguments(argv) THEN Done(<<>>, <<>>, <<>>)
    ELSE IF "setup" \in argv.ops THEN SetupBranch(argv, rnd)
    ELSE IF "keygen" \in argv.ops THEN KeygenBranch(argv, rnd)
    ELSE IF "encrypt" \in argv.ops THEN EncryptBranch(argv, rnd)
    ELSE IF "decrypt" \in argv.ops THEN DecryptBranch(argv, rnd)
    ELSE IF "rekeygen" \in argv.ops THEN RekeygenBranch(argv, rnd)
    ELSE IF "re_encrypt" \in argv.ops THEN ReEncryptBranch(argv, rnd)
    ELSE Done(<<>>, <<>>, <<>>)

\* ---------------------------------------------------------------- state
\* wsParams, wsKeys, wsCt, wsRk: what the caller holds (text: as printed;
\* obj: the value the scheme produced; the rest records where it came from).
\* last: the last invocation and what it ended in.
VARIABLES wsParams, wsKeys, wsCt, wsRk, last

vars == <<wsParams, wsKeys, wsCt, wsRk, last>>

NoParams == [has |-> FALSE, text |-> BadJson, obj |-> <<>>]
NoKeys == [has |-> FALSE, pk |-> <<>>, sk |-> <<>>, obj |-> <<>>]
NoCt == [has |-> FALSE, text |-> BadJson, obj |-> <<>>, owner |-> "-", msg |-> <<>>,
         target |-> "-", hops |-> 0]
NoRk == [has |-> FALSE, text |-> <<>>, obj |-> <<>>, from |-> "-", to |-> "-"]

\* Messages the caller types.
RECURSIVE StrsOfLen(_)
StrsOfLen(n) ==
    IF n = 0 THEN {<<>>}
    ELSE {Append(s, c) : s \in StrsOfLen(n - 1), c \in Chars}
Messages == UNION {StrsOfLen(n) : n \in 0 .. MaxMsgLen}

\* The arguments the caller can take from the workspace.
ParamsArg == IF wsParams.has THEN Arg(wsParams.text) ELSE NoArg
PkArg(o) == IF o \in Owners /\ wsKeys[o].has THEN Arg(wsKeys[o].pk) ELSE NoArg
SkArg(o) == IF o \in Owners /\ wsKeys[o].has THEN Arg(wsKeys[o].sk) ELSE NoArg
CtArg == IF wsCt.has THEN Arg(wsCt.text) ELSE NoArg
RkArg == IF wsRk.has THEN Arg(wsRk.text) ELSE NoArg

KeygenArgv == Argv({"keygen"}, ParamsArg, NoArg, NoArg, NoArg, NoArg, NoArg, FALSE)
EncryptArgv(o, m) ==
    Argv({"encrypt"}, ParamsArg, NoArg, PkArg(o), Arg(m), NoArg, NoArg, FALSE)
DecryptArgv(pkOf, skOf, owned) ==
    Argv({"decrypt"}, ParamsArg, SkArg(skOf), PkArg(pkOf), NoArg, CtArg, NoArg, owned)
RekeygenArgv(a, b) ==
    Argv({"rekeygen"}, NoArg, SkArg(a), PkArg(b), NoArg, NoArg, NoArg, FALSE)
ReEncryptArgv == Argv({"re_encrypt"}, ParamsArg, NoArg, NoArg, NoArg, CtArg, RkArg, FALSE)
SetupArgv == Argv({"setup"}, NoArg, NoArg, NoArg, NoArg, NoArg, NoArg, FALSE)

\* ------------------------------------------------- ill-formed invocations
\* Texts that are no encoding: a symbol outside the text-safe alphabet, and
\* text-safe symbols that neither group decodes to an element.
BadText == <<PairingOrder, 0>>
BadElemText == <<2, PairingOrder - 1>>

JsonArgs == {"params", "ciphertext"}
KeyArgs == {"pk", "sk", "rekey"}

Uses(op) ==
    IF op = "keygen" THEN {"params"}
    ELSE IF op = "encrypt" THEN {"params", "pk", "message"}
    ELSE IF op = "decrypt" THEN {"params", "pk", "sk", "ciphertext"}
    ELSE IF op = "rekeygen" THEN {"pk", "sk"}
    ELSE IF op = "re_encrypt" THEN {"params", "rekey", "ciphertext"}
    ELSE {}

RemoveAt(m, i) == [j \in 1 .. (Len(m) - 1) |-> IF j < i THEN m[j] ELSE m[j + 1]]
Reverse(m) == [j \in 1 .. Len(m) |-> m[Len(m) + 1 - j]]

\* A fault is <<kind, argument, member>>.
FaultKinds == {"missing", "badjson", "badtext", "badelem", "nofield", "reorder"}

Faults(op) ==
    {f \in FaultKinds \X Uses(op) \X (0 .. 2) :
        \/ f[1] = "missing" /\ f[3] = 0
        \/ f[1] \in {"badjson", "reorder"} /\ f[2] \in JsonArgs /\ f[3] = 0
        \/ f[1] \in {"badtext", "badelem"} /\ f[2] \in JsonArgs /\ f[3] # 0
        \/ f[1] \in {"badtext", "badelem"} /\ f[2] \in KeyArgs /\ f[3] = 0
        \/ f[1] = "nofield" /\ f[2] \in JsonArgs}

\* The fault can be made on this argument of this invocation.
Applicable(argv, f) ==
    /\ argv[f[2]].given
    /\ f[2] \in JsonArgs /\ f[1] # "missing" /\ f[1] # "badjson" =>
          /\ argv[f[2]].text.wf
          /\ f[3] <= Len(argv[f[2]].text.members)
          /\ f[1] = "reorder" => Len(argv[f[2]].text.members) > 1

SpoilJson(t, kind, i) ==
    IF kind = "badjson" THEN BadJson
    ELSE IF kind = "reorder" THEN JsonText(Reverse(t.members))
    ELSE IF kind = "nofield"
         THEN IF i = 0 THEN JsonText(<<>>) ELSE JsonText(RemoveAt(t.members, i))
    ELSE JsonText([t.members EXCEPT ![i] =
             <<t.members[i][1], IF kind = "badtext" THEN BadText ELSE BadElemText>>])

ApplyFault(argv, f) ==
    IF f[1] = "missing" THEN [argv EXCEPT ![f[2]] = NoArg]
    ELSE IF f[2] \in JsonArgs
         THEN [argv EXCEPT ![f[2]] = Arg(SpoilJson(argv[f[2]].text, f[1], f[3]))]
    ELSE [argv EXCEPT ![f[2]] = Arg(IF f[1] = "badtext" THEN BadText ELSE BadElemText)]

\* ------------------------------------------------------------ transitions
Record(o, op, fault, owned, pkOf, skOf, n) ==
    [exit |-> o.exit, err |-> o.err, msg |-> o.msg, out |-> o.out, calls |-> o.calls,
     obj |-> o.obj, op |-> op, fault |-> fault, owned |-> owned, pkOf |-> pkOf,
     skOf |-> skOf, n |-> n]

Init ==
    /\ wsParams = NoParams
    /\ wsKeys = [o \in Owners |-> NoKeys]
    /\ wsCt = NoCt
    /\ wsRk = NoRk
    /\ last = Record(Done(<<>>, <<>>, <<>>), "none", "none", FALSE, "-", "-", 0)

\* --setup: the caller starts over with the parameters printed.
Setup(R) ==
    \E gamma \in R :
        \E o \in {Main(SetupArgv, gamma)} :
        /\ last' = Record(o, "setup", "none", FALSE, "-", "-", 0)
        /\ IF o.exit = 0
           THEN /\ wsParams' = [has |-> TRUE, text |-> o.out[1], obj |-> o.obj]
                /\ wsKeys' = [w \in Owners |-> NoKeys]
                /\ wsCt' = NoCt
                /\ wsRk' = NoRk
           ELSE UNCHANGED <<wsParams, wsKeys, wsCt, wsRk>>

\* --keygen by an owner who has no key pair yet.
Keygen(R) ==
    \E who \in {w \in Owners : ~wsKeys[w].has}, x \in R :
        \E o \in {Main(KeygenArgv, x)} :
        /\ last' = Record(o, "keygen", "none", FALSE, "-", "-", 0)
        /\ IF o.exit = 0
           THEN wsKeys' = [wsKeys EXCEPT ![who] =
                    [has |-> TRUE, pk |-> o.out[1], sk |-> o.out[2], obj |-> o.obj]]
           ELSE UNCHANGED wsKeys
        /\ UNCHANGED <<wsParams, wsCt, wsRk>>

\* --encrypt of a message to an owner's public key.
Encrypt(R, M) ==
    \E who \in Owners, m \in M, r \in R :
        \E o \in {Main(EncryptArgv(who, m), r)} :
        /\ last' = Record(o, "encrypt", "none", FALSE, who, "-", Len(Utf8Encode(m)))
        /\ IF o.exit = 0
           THEN wsCt' = [has |-> TRUE, text |-> o.out[1], obj |-> o.obj, owner |-> who,
                         msg |-> m, target |-> "-", hops |-> 0]
           ELSE UNCHANGED wsCt
        /\ UNCHANGED <<wsParams, wsKeys, wsRk>>

\* --rekeygen with a's secret key and b's public key.
RunRekeygen ==
    \E a \in Owners, b \in Owners :
        \E o \in {Main(RekeygenArgv(a, b), 0)} :
        /\ last' = Record(o, "rekeygen", "none", FALSE, b, a, 0)
        /\ IF o.exit = 0
           THEN wsRk' = [has |-> TRUE, text |-> o.out[1], obj |-> o.obj,
                         from |-> a, to |-> b]
           ELSE UNCHANGED wsRk
        /\ UNCHANGED <<wsParams, wsKeys, wsCt>>

\* --re-encrypt of the held ciphertext with the held re-encryption key.
RunReEncrypt ==
    \E o \in {Main(ReEncryptArgv, 0)} :
    /\ last' = Record(o, "re_encrypt", "none", FALSE, "-", "-", 0)
    /\ IF o.exit = 0
       THEN wsCt' = [wsCt EXCEPT !.text = o.out[1], !.obj = o.obj,
                                 !.hops = wsCt.hops + 1,
                                 !.target = IF wsRk.from = wsCt.owner
                                            THEN wsRk.to ELSE "nobody"]
       ELSE UNCHANGED wsCt
    /\ UNCHANGED <<wsParams, wsKeys, wsRk>>

\* --decrypt of the held ciphertext; prints, keeps nothing.  The public key
\* is read only under --owned.
RunDecrypt ==
    \E skOf \in Owners, owned \in BOOLEAN :
      \E pkOf \in {w \in Owners : owned \/ w = skOf} :
        \E o \in {Main(DecryptArgv(pkOf, skOf, owned), 0)} :
        /\ last' = Record(o, "decrypt", "none", owned, pkOf, skOf, 0)
        /\ UNCHANGED <<wsParams, wsKeys, wsCt, wsRk>>

RunSetup == Setup(RandScalars)
RunKeygen == Keygen(RandScalars)
\* In the workflow the caller encrypts when it holds no ciphertext.
RunEncrypt == ~wsCt.has /\ Encrypt(RandScalars, Messages)

Next ==
    \/ RunSetup
    \/ RunKeygen
    \/ RunEncrypt
    \/ RunRekeygen
    \/ RunReEncrypt
    \/ RunDecrypt

Spec == Init /\ [][Next]_vars

\* ------------------------------------- runs with ill-formed invocations
\* The base invocation of an operation on what the workspace holds.
BaseArgv(op) ==
    IF op = "keygen" THEN KeygenArgv
    ELSE IF op = "encrypt" THEN EncryptArgv("A", <<"a">>)
    ELSE IF op = "decrypt" THEN DecryptArgv("A", "A", FALSE)
    ELSE IF op = "rekeygen" THEN RekeygenArgv("A", "A")
    ELSE IF op = "re_encrypt" THEN ReEncryptArgv
    ELSE SetupArgv

\* An invocation one of whose inputs is left out or spoiled; nothing is kept.
RunFaulty ==
    \E op \in OpNames :
        \E f \in Faults(op) :
            /\ Applicable(BaseArgv(op), f)
            /\ \E o \in {Main(ApplyFault(BaseArgv(op), f), 1)} :
                  last' = Record(o, op, f[1], FALSE, "-", "-", 0)
            /\ UNCHANGED <<wsParams, wsKeys, wsCt, wsRk>>

\* Two operations at once; --message with --ciphertext; no operation.
UsageArgv(kind) ==
    IF kind = "two operations"
    THEN [BaseArgv("encrypt") EXCEPT !.ops = {"encrypt", "decrypt"}]
    ELSE IF kind = "message and ciphertext"
    THEN [BaseArgv("encrypt") EXCEPT !.ciphertext = Arg(BadJson)]
    ELSE [BaseArgv("keygen") EXCEPT !.ops = {}]

RunUsage ==
    \E kind \in {"two operations", "message and ciphertext", "no operation"} :
        \E o \in {Main(UsageArgv(kind), 1)} :
        /\ last' = Record(o, "usage", kind, FALSE, "-", "-", 0)
        /\ UNCHANGED <<wsParams, wsKeys, wsCt, wsRk>>

FaultySetup == Setup(FaultyRunScalars)
FaultyKeygen == Keygen(FaultyRunScalars)
FaultyEncrypt == Encrypt(FaultyRunScalars, {<<"a">>})

NextFaults ==
    \/ FaultySetup
    \/ FaultyKeygen
    \/ FaultyEncrypt
    \/ RunRekeygen
    \/ RunReEncrypt
    \/ RunFaulty
    \/ RunUsage

SpecFaults == Init /\ [][NextFaults]_vars

\* ------------------------------------------- runs of --encrypt on its own
\* Every message up to MaxMsgLen, whatever is held.
EncryptAny == Encrypt(RandScalars, Messages)
EmbedSetup == Setup(RandScalars)
EmbedKeygen == Keygen(RandScalars)

NextEmbed ==
    \/ EmbedSetup
    \/ EmbedKeygen
    \/ EncryptAny

SpecEmbed == Init /\ [][NextEmbed]_vars

\* ----------------------------------------------------------------- claims
Holders == {o \in Owners : wsKeys[o].has}
ExpectedGroup(key) == IF key = "c3" THEN "integer" ELSE "pairing"
RouteRight(route) ==
    \A i \in 1 .. Len(route) : route[i][2] = ExpectedGroup(route[i][1])

\* C1. Round trip by self-delegation: on a ciphertext fresh from --encrypt,
\* --decrypt with --owned and the owner's own keys first makes the owner's
\* re-encryption key, transforms the ciphertext with it, then decrypts, and
\* prints the message that was encrypted; the same holds of the scheme
\* operations applied to the ciphertext as produced.
C1_RoundTrip ==
    (wsCt.has /\ wsCt.hops = 0) =>
        /\ \E o \in {Main(DecryptArgv(wsCt.owner, wsCt.owner, TRUE), 0)} :
              /\ o.exit = 0
              /\ o.out = <<wsCt.msg>>
              /\ o.calls = <<"rekeygen", "re_encrypt", "decrypt">>
        /\ LET k == wsKeys[wsCt.owner].obj
               rk == rekeygen(k.sk, k.pk)
               c == re_encrypt(wsParams.obj, rk.val, wsCt.obj)
           IN  /\ IsOk(rk) /\ IsOk(c)
               /\ decrypt(wsParams.obj, k.sk, c.val) = Ok(Utf8Encode(wsCt.msg))
        /\ (/\ last.op = "decrypt" /\ last.owned
            /\ last.pkOf = wsCt.owner /\ last.skOf = wsCt.owner)
              => last.exit = 0 /\ last.out = <<wsCt.msg>>

C1_Witness ==
    /\ wsCt.has /\ wsCt.hops = 0 /\ Len(wsCt.msg) = EmbedBound
    /\ last.op = "decrypt" /\ last.owned
    /\ last.pkOf = wsCt.owner /\ last.skOf = wsCt.owner
    /\ last.exit = 0 /\ last.out = <<wsCt.msg>>
    /\ last.calls = <<"rekeygen", "re_encrypt", "decrypt">>

\* C2. Delegation: a ciphertext encrypted to its owner and transformed once
\* with a re-encryption key made from the owner's secret key and a
\* delegatee's public key is decrypted, without --owned, by the delegatee's
\* secret key to the message that was encrypted.
C2_Delegation ==
    (wsCt.has /\ wsCt.hops = 1 /\ wsCt.target \in Owners) =>
        /\ \A pkOf \in Holders :
              \E o \in {Main(DecryptArgv(pkOf, wsCt.target, FALSE), 0)} :
                 /\ o.exit = 0
                 /\ o.out = <<wsCt.msg>>
                 /\ o.calls = <<"decrypt">>
        /\ (last.op = "decrypt" /\ ~last.owned /\ last.skOf = wsCt.target)
              => last.exit = 0 /\ last.out = <<wsCt.msg>>

C2_Witness ==
    /\ wsCt.has /\ wsCt.hops = 1 /\ wsCt.target \in Owners
    /\ wsCt.target # wsCt.owner
    /\ wsKeys["A"].has /\ wsKeys["B"].has /\ wsKeys["A"].sk # wsKeys["B"].sk
    /\ wsCt.msg # <<>>
    /\ last.op = "decrypt" /\ ~last.owned /\ last.skOf = wsCt.target
    /\ last.exit = 0 /\ last.out = <<wsCt.msg>>

\* C3. Single hop: a held ciphertext has been transformed at most once, is
\* Level-2 before the transform and Level-1 after it; on a Level-1
\* ciphertext --re-encrypt, and the self-transform of --decrypt --owned,
\* end in WrongLevel and print nothing.
C3_SingleHop ==
    wsCt.has =>
        /\ wsCt.hops \in {0, 1}
        /\ Level(wsCt.obj) = (IF wsCt.hops = 0 THEN 2 ELSE 1)
        /\ IsOk(retrieve_cipher(wsCt.text))
        /\ Level(retrieve_cipher(wsCt.text).val) = Level(wsCt.obj)
        /\ (wsCt.hops = 1 /\ wsRk.has) =>
              \E o \in {Main(ReEncryptArgv, 0)} :
                 o.err = "WrongLevel" /\ o.exit # 0 /\ o.out = <<>>
        /\ wsCt.hops = 1 =>
              \A pkOf \in Holders, skOf \in Holders :
                 \E o \in {Main(DecryptArgv(pkOf, skOf, TRUE), 0)} :
                    /\ o.err = "WrongLevel" /\ o.exit # 0 /\ o.out = <<>>
                    /\ o.calls = <<"rekeygen", "re_encrypt">>

C3_Witness ==
    /\ wsCt.has /\ wsCt.hops = 1 /\ wsRk.has
    /\ last.op = "re_encrypt" /\ last.err = "WrongLevel" /\ last.out = <<>>

\* C4. Level enforcement on Decrypt: on a ciphertext fresh from --encrypt,
\* --decrypt without --owned ends in WrongLevel and prints nothing, with the
\* owner's secret key as with any other.
C4_DecryptLevel ==
    (wsCt.has /\ wsCt.hops = 0) =>
        /\ \A pkOf \in Holders, skOf \in Holders :
              \E o \in {Main(DecryptArgv(pkOf, skOf, FALSE), 0)} :
                 o.err = "WrongLevel" /\ o.exit # 0 /\ o.out = <<>>
        /\ (/\ last.op = "decrypt" /\ ~last.owned
            /\ last.pkOf \in Holders /\ last.skOf \in Holders)
              => last.err = "WrongLevel" /\ last.exit # 0 /\ last.out = <<>>

C4_Witness ==
    /\ wsCt.has /\ wsCt.hops = 0
    /\ last.op = "decrypt" /\ ~last.owned /\ last.skOf = wsCt.owner
    /\ last.err = "WrongLevel" /\ last.out = <<>>

\* C5. Missing inputs: an invocation of an operation that lacks one or more
\* of the inputs the operation requires ends with exit status 2 and the
\* operation's own message, having entered no scheme operation and printed
\* nothing; the messages of different operations differ.
RequiredMsg(op) == Main(Argv({op}, NoArg, NoArg, NoArg, NoArg, NoArg, NoArg, FALSE), 1).msg

Without(argv, D) == [a \in DOMAIN argv |-> IF a \in D THEN NoArg ELSE argv[a]]

C5_MissingInput ==
    /\ \A op \in OpNames \ {"setup"} :
          \A D \in SUBSET Uses(op) :
             \A owned \in BOOLEAN :
                \E argv \in {[Without(BaseArgv(op), D) EXCEPT !.owned = owned]} :
                   (\E a \in Uses(op) : ~argv[a].given) =>
                      \E o \in {Main(argv, 1)} :
                         /\ o.exit = 2
                         /\ o.err = "MissingArgument"
                         /\ o.msg = RequiredMsg(op) /\ o.msg # ""
                         /\ o.calls = <<>>
                         /\ o.out = <<>>
    /\ \A op1 \in OpNames \ {"setup"}, op2 \in OpNames \ {"setup"} :
          op1 # op2 => RequiredMsg(op1) # RequiredMsg(op2)

C5_Witness ==
    /\ wsParams.has /\ wsKeys["A"].has /\ wsCt.has
    /\ last.op = "decrypt" /\ last.fault = "missing"
    /\ last.exit = 2 /\ last.err = "MissingArgument"
    /\ last.calls = <<>> /\ last.out = <<>>

\* C6 (as claimed). Mismatched key: --decrypt of a ciphertext transformed
\* for one owner, with the secret key of another, ends with exit status 0
\* and prints some text.
C6_MismatchedKeyPrints ==
    (/\ wsCt.has /\ wsCt.hops = 1 /\ wsCt.target \in Owners
     /\ last.op = "decrypt" /\ ~last.owned
     /\ last.pkOf \in Holders /\ last.skOf \in Holders
     /\ wsKeys[last.skOf].sk # wsKeys[wsCt.target].sk)
        => last.exit = 0 /\ last.err = "None" /\ Len(last.out) = 1

\* The scheme operation alone does return bytes, whatever the key.
C6_DecryptReturnsBytes ==
    (wsCt.has /\ wsCt.hops = 1) =>
        \A skOf \in Holders : IsOk(decrypt(wsParams.obj, wsKeys[skOf].obj.sk, wsCt.obj))

C6_Witness ==
    /\ wsCt.has /\ wsCt.hops = 1 /\ wsCt.target \in Owners
    /\ last.op = "decrypt" /\ ~last.owned /\ last.skOf # wsCt.target
    /\ wsKeys[last.skOf].sk # wsKeys[wsCt.target].sk
    /\ last.err = "UnicodeDecodeError" /\ last.exit = 1
    /\ last.calls = <<"decrypt">>

\* C7 (as claimed). Decode failure: when an input of an otherwise complete
\* invocation is unparsable JSON, holds a text that is not text-safe or is
\* no element, or lacks a member, the invocation ends in MalformedInput
\* without entering a scheme operation.
SpoiledKinds == {"badjson", "badtext", "badelem", "nofield"}
Complete(op) == \A a \in Uses(op) : BaseArgv(op)[a].given

DecodeFailsOn(kinds) ==
    /\ (last.fault \in kinds /\ Complete(last.op)) =>
          last.err = "MalformedInput" /\ last.calls = <<>> /\ last.out = <<>>
    /\ \A op \in OpNames :
          \A f \in Faults(op) :
             (f[1] \in kinds /\ Complete(op) /\ Applicable(BaseArgv(op), f)) =>
                \E o \in {Main(ApplyFault(BaseArgv(op), f), 1)} :
                   o.err = "MalformedInput" /\ o.calls = <<>> /\ o.out = <<>>

C7_DecodeFailure == DecodeFailsOn(SpoiledKinds)

\* The part of C7 the code keeps: all but the missing member.
C7_DecodeFailureButField == DecodeFailsOn(SpoiledKinds \ {"nofield"})

C7_Witness ==
    /\ last.fault = "nofield" /\ last.op = "keygen"
    /\ last.calls = <<"keygen">> /\ last.err = "KeyError"

\* C8. Codec routing: for the held ciphertext, at either level and with its
\* members in either order, serialize_cipher and retrieve_cipher both put
\* member c3 through the residue group's encoder and every other member
\* through the pairing group's, and so recover each member as it was.
C8_CodecRouting ==
    wsCt.has =>
       \A c \in {wsCt.obj, Reverse(wsCt.obj)} :
          \E e \in {serialize_cipher(c)} :
             /\ IsOk(e)
             /\ RouteRight(e.route)
             /\ \E d \in {retrieve_cipher(e.val)} :
                   /\ IsOk(d)
                   /\ RouteRight(d.route)
                   /\ d.route = e.route
                   /\ d.val = c

C8_Witness ==
    /\ wsCt.has /\ wsCt.hops = 1
    /\ last.op = "decrypt" /\ last.fault = "reorder" /\ last.exit = 0
    /\ last.out = <<wsCt.msg>>

\* C9. Serialization round trip: the parameters, public keys, secret keys,
\* re-encryption key and ciphertext (Level-2 or Level-1) the caller holds
\* decode from their printed texts to the values that were encoded; and the
\* same for every element and every ciphertext of the two groups (a fact of
\* the codec alone, evaluated in the states before the first --setup).
PairingElems == {Elem(g, v) : g \in {"ZR", "G1", "GT"}, v \in 0 .. (PairingOrder - 1)}
Ciphers == {<<(<<"c1", c1>>), (<<"c3", Elem("Zp", v)>>)>> :
               c1 \in {e \in PairingElems : e.grp # "ZR"},
               v \in 0 .. (ResidueModulus - 1)}

C9_SerializationRoundTrip ==
    /\ wsParams.has => retrieve_params(wsParams.text) =
                          [err |-> "None", val |-> wsParams.obj,
                           route |-> retrieve_params(wsParams.text).route]
    /\ \A o \in Holders :
          /\ deserialize_group_element(wsKeys[o].pk, "pairing") = Ok(wsKeys[o].obj.pk)
          /\ deserialize_group_element(wsKeys[o].sk, "pairing") = Ok(wsKeys[o].obj.sk)
    /\ wsRk.has => deserialize_group_element(wsRk.text, "pairing") = Ok(wsRk.obj)
    /\ wsCt.has => /\ IsOk(retrieve_cipher(wsCt.text))
                   /\ retrieve_cipher(wsCt.text).val = wsCt.obj
    /\ ~wsParams.has =>
          /\ \A e \in PairingElems :
                \E t \in {serialize_group_element(e, "pairing")} :
                   IsOk(t) /\ deserialize_group_element(t.val, "pairing") = Ok(e)
          /\ \A c \in Ciphers :
                \E t \in {serialize_cipher(c)} :
                   /\ IsOk(t)
                   /\ \E d \in {retrieve_cipher(t.val)} : IsOk(d) /\ d.val = c

C9_Witness ==
    /\ wsParams.has /\ wsKeys["A"].has /\ wsKeys["B"].has /\ wsRk.has
    /\ wsCt.has /\ wsCt.hops = 1 /\ wsCt.msg # <<>>
    /\ last.op = "re_encrypt" /\ last.exit = 0
    /\ retrieve_cipher(last.out[1]).val = last.obj

\* C10. Embedding boundary: --encrypt of a message of exactly EmbedBound
\* bytes prints a Level-2 ciphertext; of a message one byte longer it ends
\* in PayloadTooLarge and prints nothing.
C10_EmbeddingBoundary ==
    wsParams.has =>
       \A who \in Holders, r \in RandScalars,
          m \in {x \in Messages : Len(x) \in {EmbedBound, EmbedBound + 1}} :
          \E o \in {Main(EncryptArgv(who, m), r)} :
             /\ Len(m) = EmbedBound =>
                   /\ o.exit = 0 /\ Len(o.out) = 1
                   /\ Level(o.obj) = 2
                   /\ IsOk(retrieve_cipher(o.out[1]))
                   /\ Level(retrieve_cipher(o.out[1]).val) = 2
             /\ Len(m) = EmbedBound + 1 =>
                   /\ o.err = "PayloadTooLarge" /\ o.exit # 0 /\ o.out = <<>>
                   /\ o.calls = <<"encrypt">>

C10_Witness ==
    /\ wsCt.has /\ wsCt.hops = 0 /\ Len(wsCt.msg) = EmbedBound
    /\ last.op = "encrypt" /\ last.n = EmbedBound + 1
    /\ last.err = "PayloadTooLarge" /\ last.out = <<>>

====
